---- MODULE Spec2Model ----
(***************************************************************************)
(* Fragment-based view router (App) and scroll-reactive Header of the     *)
(* BrainAI education site, modelled as a state machine over the browser's *)
(* ambient state (location fragment, scroll position, event listeners)    *)
(* and the two components' React state.                                   *)
(***************************************************************************)
EXTENDS Integers, Sequences, FiniteSets, TLC

\* ------------------------------------------------------- program constants
ScrollThreshold == 10   \* Header: window.scrollY > 10

\* ------------------------------------------------------------------ bounds
MaxPending == 2     \* hashchange events that may be queued and not yet dispatched
MaxMounts == 2      \* App instances created over a run (initial mount + remounts)
MaxScrollX == 0     \* horizontal scroll positions 0..MaxScrollX
MaxBeyond == 1      \* vertical positions reach ScrollThreshold + MaxBeyond
MaxGen == 3         \* generations of section instances mounted over a run

VARIABLES
    location,       \* the browser URL's fragment, [hasFragment, fragment] (App: window.location)
    scroll,         \* the viewport's scroll position, [x, y] (window.scrollTo, window.scrollY)
    listeners,      \* window's event listener list (addEventListener / removeEventListener)
    pendingHash,    \* 'hashchange' events queued, not yet dispatched
    scrollPending,  \* a 'scroll' event is pending (the browser coalesces them per frame)
    phase,          \* "rendered" (first render done, effects not yet run) | "mounted" | "unmounted"
    appInst,        \* which App instance (and so which handler closures) is the live one
    currentView,    \* App: const [currentView, setCurrentView] = useState(...)
    isScrolled,     \* Header: const [isScrolled, setIsScrolled] = useState(false)
    main,           \* what App rendered into <main>, each block with its component instance
    instCount       \* generations of component instances mounted so far

vars == <<location, scroll, listeners, pendingHash, scrollPending, phase,
          appInst, currentView, isScrolled, main, instCount>>

\* --------------------------------------------------------- the browser side

\* Fragment texts a URL may carry (the text after '#').
FragmentTexts ==
    {"", "home", "hero", "about", "programs", "aix", "multi-sorter",
     "autonomous-car", "student-exchange", "unknown-page"}

\* A URL either has no fragment at all or carries one of the texts.
Locations ==
    {[hasFragment |-> FALSE, fragment |-> ""]}
        \cup {[hasFragment |-> TRUE, fragment |-> f] : f \in FragmentTexts}

\* Vertical positions: the top, the Header's threshold, and the ones just beyond it.
ScrollYs == {0} \cup (ScrollThreshold .. ScrollThreshold + MaxBeyond)

ScrollPositions == [x : 0..MaxScrollX, y : ScrollYs]

Origin == [x |-> 0, y |-> 0]

\* window.location.hash: "" when the fragment is absent or empty, else '#' + fragment.
LocationHash(loc) ==
    IF ~loc.hasFragment \/ loc.fragment = "" THEN "" ELSE "#" \o loc.fragment

\* The URL an in-page anchor with this href ('#...') navigates to.
LocationOfHref(href) ==
    [hasFragment |-> TRUE, fragment |-> SubSeq(href, 2, Len(href))]

\* One evaluation of window.location.hash by the program: counted in the step's
\* record (hashReads is the number of reads the step being taken has made).
readHash(st) == [st EXCEPT !.hashReads = @ + 1]

\* Mutant: no fallback for a falsy left operand.
OrElse_NoFallback(a, b) == a

\* JavaScript's a || b on strings: the empty string is falsy.
OrElse(a, b) == IF a = "" THEN b ELSE a

\* One listener entry of window: (type, callback, capture).
Listener(type, callback, inst, capture) ==
    [type |-> type, callback |-> callback, inst |-> inst, capture |-> capture]

RECURSIVE Without(_, _)
Without(list, l) ==
    IF list = <<>> THEN <<>>
    ELSE IF Head(list) = l THEN Tail(list)
    ELSE <<Head(list)>> \o Without(Tail(list), l)

\* addEventListener: appends unless an entry with the same type, callback and
\* capture flag is already in the list.
addEventListener(list, l) ==
    IF \E i \in 1..Len(list) : list[i] = l THEN list ELSE Append(list, l)

\* removeEventListener: removes the entry with the same type, callback and capture
\* flag; nothing happens when there is none.
removeEventListener(list, l) == Without(list, l)

\* window.scrollTo(x, y): moves the viewport; a move queues a scroll event.
scrollTo(x, y, st) ==
    [st EXCEPT !.scroll = [x |-> x, y |-> y],
               !.scrollPending = st.scrollPending \/ st.scroll # [x |-> x, y |-> y]]

\* ------------------------------------------------------------------- App

\* The single-page registry, in insertion order (Object.entries order).
pages ==
    << [hash |-> "#about",            component |-> "About"],
       [hash |-> "#programs",         component |-> "ProgramDetails"],
       [hash |-> "#autonomous-car",   component |-> "AutonomousCarProject"],
       [hash |-> "#aix",              component |-> "AIXProject"],
       [hash |-> "#multi-sorter",     component |-> "MultiSorterProject"],
       [hash |-> "#student-exchange", component |-> "StudentExchange"] >>

\* Mutant: '#hero' is not treated as a home alias.
isHomePage_HomeOnly(view) == view = "#home"

isHomePage(view) == view = "#home" \/ view = "#hero"

\* A rendered block: the wrapper's key ("" when there is no keyed wrapper), the
\* component inside, and the wrapper's display style.
Block(hash, component, display) ==
    [hash |-> hash, component |-> component, display |-> display]

\* Mutant: the home view leaves one registry section out.
renderHomePageContent_Missing ==
    [wrapper |-> "Fragment",
     children |->
        << Block("", "Hero", "block"),
           Block("", "About", "block"),
           Block("", "ProgramDetails", "block"),
           Block("", "AIXProject", "block"),
           Block("", "AutonomousCarProject", "block"),
           Block("", "StudentExchange", "block") >>]

renderHomePageContent ==
    [wrapper |-> "Fragment",
     children |->
        << Block("", "Hero", "block"),
           Block("", "About", "block"),
           Block("", "ProgramDetails", "block"),
           Block("", "AIXProject", "block"),
           Block("", "MultiSorterProject", "block"),
           Block("", "AutonomousCarProject", "block"),
           Block("", "StudentExchange", "block") >>]

\* Mutant: the display test is inverted (currentView !== hash).
renderSinglePageContent_Inverted(view) ==
    [wrapper |-> "div",
     children |->
        [i \in 1..Len(pages) |->
            Block(pages[i].hash, pages[i].component,
                  IF view # pages[i].hash THEN "block" ELSE "none")]]

\* Mutant: the first registry section is shown whatever the view is.
renderSinglePageContent_FirstShown(view) ==
    [wrapper |-> "div",
     children |->
        [i \in 1..Len(pages) |->
            Block(pages[i].hash, pages[i].component,
                  IF view = pages[i].hash \/ i = 1 THEN "block" ELSE "none")]]

\* Mutant: only the selected section is rendered ({currentView === hash && Component}).
renderSinglePageContent_OnlySelected(view) ==
    [wrapper |-> "div",
     children |->
        SelectSeq([i \in 1..Len(pages) |-> Block(pages[i].hash, pages[i].component, "block")],
                  LAMBDA b : b.hash = view)]

renderSinglePageContent(view) ==
    [wrapper |-> "div",
     children |->
        [i \in 1..Len(pages) |->
            Block(pages[i].hash, pages[i].component,
                  IF view = pages[i].hash THEN "block" ELSE "none")]]

\* Mutant: the home view goes through the same keyed wrappers under the same div.
render_SharedWrappers(view) ==
    IF isHomePage(view)
    THEN [wrapper |-> "div",
          children |-> <<Block("#hero", "Hero", "block")>>
                          \o [i \in 1..Len(pages) |->
                                Block(pages[i].hash, pages[i].component, "block")]]
    ELSE renderSinglePageContent(view)

render(view) ==
    IF isHomePage(view) THEN renderHomePageContent ELSE renderSinglePageContent(view)

\* React's reconciliation of <main>: a block keeps its component instance when the
\* parent stays (the same wrapper) and it matches a previous block of the same
\* component, by key under the div and by position in the fragment; every other
\* block gets a new instance, of generation fresh.
reconcile(old, new, fresh) ==
    [wrapper |-> new.wrapper,
     children |->
        [i \in 1..Len(new.children) |->
            LET c == new.children[i]
                kept == {j \in 1..Len(old.children) :
                            /\ old.wrapper = new.wrapper
                            /\ old.children[j].component = c.component
                            /\ IF new.wrapper = "div" THEN old.children[j].hash = c.hash
                                                      ELSE j = i}
            IN  [hash |-> c.hash, component |-> c.component, display |-> c.display,
                 inst |-> IF kept # {} THEN old.children[CHOOSE j \in kept : TRUE].inst
                                       ELSE fresh]]]

NothingRendered == [wrapper |-> "none", children |-> <<>>]

\* Mutant: the initial state ignores the fragment (useState('#home')).
initialView_AlwaysHome(loc) == "#home"

\* useState(window.location.hash || '#home')
initialView(loc) == OrElse(LocationHash(loc), "#home")

\* setCurrentView from a handler of instance inst: updates the state of that
\* instance while it is alive. A changed value re-renders App, and the render
\* evaluates useState's argument, window.location.hash || '#home', once more
\* (the value is not used after the first render).
setCurrentView(inst, view, st) ==
    IF inst = st.appInst /\ st.phase # "unmounted"
    THEN IF view # st.currentView THEN readHash([st EXCEPT !.currentView = view]) ELSE st
    ELSE st

\* Mutant: a fragment outside the registry falls back to '#home'.
handleHashChange_Validating(inst, st) ==
    LET hash == OrElse(LocationHash(st.location), "#home")
        known == \E i \in 1..Len(pages) : pages[i].hash = hash
        newHash == IF known \/ isHomePage(hash) THEN hash ELSE "#home"
    IN  scrollTo(0, 0, setCurrentView(inst, newHash, readHash(st)))

\* Mutant: the viewport is scrolled only when the view changes.
handleHashChange_ScrollOnChange(inst, st) ==
    LET newHash == OrElse(LocationHash(st.location), "#home")
        after == setCurrentView(inst, newHash, readHash(st))
    IN  IF newHash = st.currentView THEN after ELSE scrollTo(0, 0, after)

\* Mutant: an event for the view already shown returns to '#home'.
handleHashChange_Toggle(inst, st) ==
    LET hash == OrElse(LocationHash(st.location), "#home")
        newHash == IF hash = st.currentView THEN "#home" ELSE hash
    IN  scrollTo(0, 0, setCurrentView(inst, newHash, readHash(st)))

\* Mutant: navigation also resets the Header's scrolled style.
handleHashChange_ResetsHeader(inst, st) ==
    LET newHash == OrElse(LocationHash(st.location), "#home")
    IN  [scrollTo(0, 0, setCurrentView(inst, newHash, readHash(st))) EXCEPT !.isScrolled = FALSE]

handleHashChange(inst, st) ==
    LET newHash == OrElse(LocationHash(st.location), "#home")
    IN  scrollTo(0, 0, setCurrentView(inst, newHash, readHash(st)))

hashChangeListener(inst) == Listener("hashchange", "handleHashChange", inst, FALSE)

\* Mutant: the effect only registers the listener (no initial load check).
appEffect_NoInitialCheck(st) ==
    [st EXCEPT !.listeners = addEventListener(st.listeners, hashChangeListener(st.appInst))]

\* The effect of App: register the listener, then run the handler once.
appEffect(st) ==
    handleHashChange(st.appInst,
        [st EXCEPT !.listeners = addEventListener(st.listeners, hashChangeListener(st.appInst))])

\* Mutant: the cleanup removes with another capture flag, which matches no entry.
appCleanup_WrongCapture(st) ==
    [st EXCEPT !.listeners =
        removeEventListener(st.listeners,
                            Listener("hashchange", "handleHashChange", st.appInst, TRUE))]

\* The effect's cleanup.
appCleanup(st) ==
    [st EXCEPT !.listeners = removeEventListener(st.listeners, hashChangeListener(st.appInst))]

\* ---------------------------------------------------------------- Header

\* Mutant: one nav link's href is misspelt and names no section.
navLinks_Typo ==
    << [name |-> "about",            href |-> "#about"],
       [name |-> "programs",         href |-> "#program"],
       [name |-> "aix",              href |-> "#aix"],
       [name |-> "multi-sorter",     href |-> "#multi-sorter"],
       [name |-> "autonomous-car",   href |-> "#autonomous-car"],
       [name |-> "student-exchange", href |-> "#student-exchange"] >>

navLinks ==
    << [name |-> "about",            href |-> "#about"],
       [name |-> "programs",         href |-> "#programs"],
       [name |-> "aix",              href |-> "#aix"],
       [name |-> "multi-sorter",     href |-> "#multi-sorter"],
       [name |-> "autonomous-car",   href |-> "#autonomous-car"],
       [name |-> "student-exchange", href |-> "#student-exchange"] >>

\* Mutant: the logo anchor is missing.
headerAnchors_NoLogo == [i \in 1..Len(navLinks) |-> navLinks[i].href]

\* The anchors the Header renders: the logo, then one per nav link.
headerAnchors == <<"#home">> \o [i \in 1..Len(navLinks) |-> navLinks[i].href]

setIsScrolled(inst, v, st) ==
    IF inst = st.appInst /\ st.phase # "unmounted"
    THEN [st EXCEPT !.isScrolled = v]
    ELSE st

\* Mutant: the threshold itself already counts as scrolled (>=).
handleScroll_AtLeast(inst, st) == setIsScrolled(inst, st.scroll.y >= ScrollThreshold, st)

handleScroll(inst, st) == setIsScrolled(inst, st.scroll.y > ScrollThreshold, st)

scrollListener(inst) == Listener("scroll", "handleScroll", inst, FALSE)

headerEffect(st) ==
    [st EXCEPT !.listeners = addEventListener(st.listeners, scrollListener(st.appInst))]

headerCleanup(st) ==
    [st EXCEPT !.listeners = removeEventListener(st.listeners, scrollListener(st.appInst))]

\* --------------------------------------------------------- ProgramDetails

\* The links of the four program cards.
programs == <<"#aix", "#multi-sorter", "#autonomous-car", "#student-exchange">>

\* ------------------------------------------------------------ the machine

\* The state a step starts from (no read of the fragment made yet in the step).
World ==
    [location |-> location, scroll |-> scroll, listeners |-> listeners,
     scrollPending |-> scrollPending, phase |-> phase, appInst |-> appInst,
     currentView |-> currentView, isScrolled |-> isScrolled, hashReads |-> 0]

\* The next state is st; <main> is re-rendered from the state.
Commit(st) ==
    /\ location' = st.location
    /\ scroll' = st.scroll
    /\ listeners' = st.listeners
    /\ scrollPending' = st.scrollPending
    /\ phase' = st.phase
    /\ appInst' = st.appInst
    /\ currentView' = st.currentView
    /\ isScrolled' = st.isScrolled
    /\ main' = reconcile(main,
                         IF st.phase = "unmounted" THEN NothingRendered
                                                   ELSE render(st.currentView),
                         instCount + 1)
    /\ instCount' = IF \E i \in 1..Len(main'.children) : main'.children[i].inst > instCount
                     THEN instCount + 1 ELSE instCount

\* An event of this type is dispatched: every listener of the type runs, in order.
RECURSIVE dispatch(_, _, _)
dispatch(type, list, st) ==
    IF list = <<>> THEN st
    ELSE LET l == Head(list)
             after == IF l.type # type THEN st
                      ELSE IF l.callback = "handleHashChange"
                           THEN handleHashChange(l.inst, st)
                           ELSE handleScroll(l.inst, st)
         IN  dispatch(type, Tail(list), after)

Init ==
    /\ location \in Locations
    /\ scroll \in ScrollPositions
    /\ listeners = <<>>
    /\ pendingHash = 0
    /\ scrollPending = FALSE
    /\ phase = "rendered"
    /\ appInst = 1
    /\ currentView = initialView(location)
    /\ isScrolled = FALSE
    /\ instCount = 1
    /\ main = reconcile(NothingRendered, render(currentView), 1)

\* The browser navigates to loc; a hashchange event is queued when the fragment changed.
\* (A navigation that leads to a switch between the home and the single-page output
\* is taken only while the run may still mount a generation of instances.)
navigateTo(loc) ==
    /\ pendingHash < MaxPending
    /\ (phase # "unmounted" /\ isHomePage(initialView(loc)) # isHomePage(currentView))
          => instCount < MaxGen
    /\ pendingHash' = IF loc # location THEN pendingHash + 1 ELSE pendingHash
    /\ Commit([World EXCEPT !.location = loc])

\* Address bar edit or back/forward.
Navigate == \E loc \in Locations : navigateTo(loc)

\* The user activates one of the Header's anchors.
ClickHeaderLink ==
    /\ phase # "unmounted"
    /\ \E i \in 1..Len(headerAnchors) : navigateTo(LocationOfHref(headerAnchors[i]))

\* The user activates a program card (ProgramDetails must be on screen).
ClickProgramCard ==
    /\ \E b \in 1..Len(main.children) :
          main.children[b].component = "ProgramDetails" /\ main.children[b].display = "block"
    /\ \E i \in 1..Len(programs) : navigateTo(LocationOfHref(programs[i]))

\* The user scrolls the page.
UserScroll ==
    \E p \in ScrollPositions :
        /\ p # scroll
        /\ UNCHANGED pendingHash
        /\ Commit(scrollTo(p.x, p.y, World))

\* What the steps of the program make of the current state.
hashChangeDispatched == dispatch("hashchange", listeners, World)

scrollDispatched == dispatch("scroll", listeners, [World EXCEPT !.scrollPending = FALSE])

tornDown == [appCleanup(headerCleanup(World)) EXCEPT !.phase = "unmounted"]

effectsRun == appEffect(headerEffect([World EXCEPT !.phase = "mounted"]))

\* A new App instance renders for the first time: useState's argument is evaluated
\* and becomes the state, the Header starts unscrolled.
firstRender(st) ==
    readHash([st EXCEPT !.phase = "rendered",
                        !.appInst = st.appInst + 1,
                        !.currentView = initialView(st.location),
                        !.isScrolled = FALSE])

\* The browser dispatches one queued hashchange event.
DispatchHashChange ==
    /\ pendingHash > 0
    /\ pendingHash' = pendingHash - 1
    /\ Commit(hashChangeDispatched)

\* The browser dispatches the pending scroll event.
DispatchScroll ==
    /\ scrollPending
    /\ UNCHANGED pendingHash
    /\ Commit(scrollDispatched)

\* React runs the passive effects of the first commit: Header's (child) first, then App's.
RunEffects ==
    /\ phase = "rendered"
    /\ UNCHANGED pendingHash
    /\ Commit(effectsRun)

\* The application instance is torn down: the effects' cleanups run.
Unmount ==
    /\ phase = "mounted"
    /\ UNCHANGED pendingHash
    /\ Commit(tornDown)

\* A new application instance is rendered (first render, effects still to run).
Mount ==
    /\ phase = "unmounted"
    /\ appInst < MaxMounts
    /\ instCount < MaxGen
    /\ UNCHANGED pendingHash
    /\ Commit(firstRender(World))

Next ==
    \/ Navigate
    \/ ClickHeaderLink
    \/ ClickProgramCard
    \/ UserScroll
    \/ DispatchHashChange
    \/ DispatchScroll
    \/ RunEffects
    \/ Unmount
    \/ Mount

\* The machine when the user navigates by the application's own links only.
NextLinks ==
    \/ ClickHeaderLink
    \/ ClickProgramCard
    \/ UserScroll
    \/ DispatchHashChange
    \/ DispatchScroll
    \/ RunEffects
    \/ Unmount
    \/ Mount

SpecLinks == Init /\ [][NextLinks]_vars

Spec == Init /\ [][Next]_vars

TypeOK ==
    /\ location \in Locations
    /\ scroll \in ScrollPositions
    /\ pendingHash \in 0..MaxPending
    /\ scrollPending \in BOOLEAN
    /\ phase \in {"rendered", "mounted", "unmounted"}
    /\ appInst \in 1..MaxMounts
    /\ isScrolled \in BOOLEAN
    /\ instCount \in 1..MaxGen

\* ------------------------------------------------- vocabulary of the claims

\* The fragments the specification recognises.
HomeAliases == {"#home", "#hero"}

RegistryKeys == {pages[i].hash : i \in 1..Len(pages)}

RecognizedFragments == HomeAliases \cup RegistryKeys

\* What the specification says NavigationState is for a browser-reported fragment.
ExpectedView(loc) ==
    IF ~loc.hasFragment \/ loc.fragment = "" THEN "#home" ELSE "#" \o loc.fragment

\* The fragment a component's block stands for: its registry key, "#hero" for Hero.
KeyOf(component) ==
    IF \E i \in 1..Len(pages) : pages[i].component = component
    THEN pages[CHOOSE i \in 1..Len(pages) : pages[i].component = component].hash
    ELSE IF component = "Hero" THEN "#hero" ELSE "?"

BlockKeys(m) == [i \in 1..Len(m.children) |-> KeyOf(m.children[i].component)]

VisibleBlocks(m) == {i \in 1..Len(m.children) : m.children[i].display = "block"}

VisibleKeys(m) == {KeyOf(m.children[i].component) : i \in VisibleBlocks(m)}

MountedKeys(m) == {KeyOf(m.children[i].component) : i \in 1..Len(m.children)}

HashListeners == {i \in 1..Len(listeners) : listeners[i].type = "hashchange"}

\* A step in which handleHashChange runs for the live instance: a dispatched event
\* that finds its listener, or the effect's own call.
HandlerRuns ==
    \/ DispatchHashChange /\ phase = "mounted" /\ HashListeners # {}
    \/ RunEffects

\* ------------------------------------------------------------------ claims

\* C1: NavigationState is never empty; at initialisation, at every (re)mount and
\* after every run of the fragment-change handler it is '#home' when the browser's
\* fragment is empty or absent, and the reported fragment otherwise.
C1_NavigationStateNonEmpty ==
    /\ currentView = ExpectedView(location)
    /\ [](currentView # "")
    /\ [][(HandlerRuns \/ Mount) => currentView' = ExpectedView(location')]_vars

C1_Witness ==
    /\ phase = "mounted"
    /\ pendingHash = 0
    /\ location.hasFragment /\ location.fragment = ""
    /\ currentView = "#home"
    /\ appInst = 1

\* C2: in states #home and #hero the composer output is the concatenated home view:
\* exactly 7 blocks, all visible, in the order hero, about, programs, aix,
\* multi-sorter, autonomous-car, student-exchange (the same for both aliases).
C2_HomeView ==
    (phase # "unmounted" /\ currentView \in HomeAliases) =>
        /\ Len(main.children) = 7
        /\ VisibleBlocks(main) = 1..7
        /\ BlockKeys(main) = <<"#hero", "#about", "#programs", "#aix", "#multi-sorter",
                               "#autonomous-car", "#student-exchange">>

C2_Witness ==
    /\ phase = "mounted"
    /\ pendingHash = 0
    /\ currentView = "#hero"
    /\ Len(main.children) = 7

\* C3: when the state is one of the six registry keys, exactly the six registry
\* sections are mounted (no hero block), exactly one is visible, and it is the one
\* whose key is the state.
C3_SinglePageView ==
    (phase # "unmounted" /\ currentView \in RegistryKeys) =>
        /\ Len(main.children) = 6
        /\ MountedKeys(main) = RegistryKeys
        /\ \A i \in 1..Len(main.children) : main.children[i].component # "Hero"
        /\ Cardinality(VisibleBlocks(main)) = 1
        /\ VisibleKeys(main) = {currentView}
        /\ \A i \in 1..Len(main.children) :
              main.children[i].display = "none" <=> KeyOf(main.children[i].component) # currentView

C3_Witness ==
    /\ phase = "mounted"
    /\ pendingHash = 0
    /\ currentView = "#aix"
    /\ scroll = Origin
    /\ VisibleKeys(main) = {"#aix"}
    /\ Len(main.children) = 6

\* C4: in every reachable state whose NavigationState is not a home alias, at most
\* one section is visible, and a visible section's key is the current state.
C4_AtMostOneVisible ==
    (phase # "unmounted" /\ currentView \notin HomeAliases) =>
        /\ Cardinality(VisibleBlocks(main)) <= 1
        /\ \A i \in VisibleBlocks(main) : main.children[i].hash = currentView

\* Mid-navigation #about -> #programs: the event is still queued, #about alone shows.
C4_Witness ==
    /\ phase = "mounted"
    /\ pendingHash = 1
    /\ location.fragment = "programs"
    /\ currentView = "#about"
    /\ VisibleKeys(main) = {"#about"}

\* C5: a non-empty fragment that is neither a home alias nor a registry key is
\* stored unchanged as NavigationState, and then all six registry sections are
\* mounted hidden: no section is visible.
C5_UnknownFragmentPassThrough ==
    /\ (phase = "mounted" /\ pendingHash = 0
          /\ LocationHash(location) \notin RecognizedFragments \cup {""})
        => currentView = LocationHash(location)
    /\ (phase # "unmounted" /\ currentView \notin RecognizedFragments)
        => /\ Len(main.children) = 6
           /\ MountedKeys(main) = RegistryKeys
           /\ VisibleBlocks(main) = {}

C5_Witness ==
    /\ phase = "mounted"
    /\ pendingHash = 0
    /\ location.fragment = "unknown-page"
    /\ currentView = "#unknown-page"
    /\ VisibleBlocks(main) = {}
    /\ Len(main.children) = 6

\* C6: every run of the fragment-change handler leaves the viewport at the origin,
\* whatever the new fragment is and whether or not the state changed.
C6_HandlerScrollsToOrigin ==
    [][HandlerRuns => scroll' = Origin]_vars

\* The handler ran for an unchanged view and moved a scrolled viewport to the origin.
C6_Witness ==
    /\ phase = "mounted"
    /\ pendingHash = 1
    /\ currentView = ExpectedView(location)
    /\ scroll = Origin
    /\ scrollPending
    /\ isScrolled

\* C7: the fragment-change handler is idempotent: run twice with the same fragment
\* it yields the same NavigationState and the same visible sections as run once.
C7_HandlerIdempotent ==
    phase # "unmounted" =>
        LET once == handleHashChange(appInst, World)
            twice == handleHashChange(appInst, once)
        IN  /\ twice.currentView = once.currentView
            /\ VisibleKeys(render(twice.currentView)) = VisibleKeys(render(once.currentView))

\* An event is still queued although the handler already ran for this fragment:
\* its dispatch is the second run with the same value.
C7_Witness ==
    /\ phase = "mounted"
    /\ pendingHash = 1
    /\ location.fragment = "programs"
    /\ currentView = "#programs"

\* C8: while the instance is mounted exactly one fragment-change listener is
\* registered; teardown deregisters it, so afterwards no step alters
\* NavigationState and no fragment change or dispatched event moves the viewport;
\* removing the listener again changes nothing.
C8_ListenerLifecycle ==
    /\ [](phase = "mounted" => Cardinality(HashListeners) = 1)
    /\ [](phase = "unmounted" =>
            /\ HashListeners = {}
            /\ appCleanup(World).listeners = listeners)
    /\ [][(phase = "unmounted" /\ phase' = "unmounted") =>
            /\ currentView' = currentView
            /\ (location' # location \/ pendingHash' # pendingHash) => scroll' = scroll]_vars

\* A fragment change was dispatched after teardown and left the state alone.
C8_Witness ==
    /\ phase = "unmounted"
    /\ pendingHash = 0
    /\ currentView # ExpectedView(location)
    /\ scroll # Origin
    /\ listeners = <<>>

\* The registry's components in their order within a rendered output.
RECURSIVE RegistryPart(_)
RegistryPart(blocks) ==
    IF blocks = <<>> THEN <<>>
    ELSE IF KeyOf(Head(blocks).component) \in RegistryKeys
         THEN <<KeyOf(Head(blocks).component)>> \o RegistryPart(Tail(blocks))
         ELSE RegistryPart(Tail(blocks))

RegistryOrder == [i \in 1..Len(pages) |-> pages[i].hash]

\* C9 as stated: the registry sections appear in the home view in the registry's
\* insertion order.
C9_Original ==
    (phase # "unmounted" /\ currentView \in HomeAliases) =>
        RegistryPart(main.children) = RegistryOrder

\* C9 amended: the home view holds each registry section exactly once, in the order
\* written in renderHomePageContent (about, programs, aix, multi-sorter,
\* autonomous-car, student-exchange); the registry's insertion order differs from
\* it only in the place of autonomous-car (third in the registry).
C9_HomeOrderIsItsOwn ==
    (phase # "unmounted" /\ currentView \in HomeAliases) =>
        LET home == RegistryPart(main.children)
        IN  /\ Len(home) = Len(pages)
            /\ {home[i] : i \in 1..Len(home)} = RegistryKeys
            /\ home = <<"#about", "#programs", "#aix", "#multi-sorter",
                        "#autonomous-car", "#student-exchange">>
            /\ RegistryOrder = <<"#about", "#programs", "#autonomous-car", "#aix",
                                 "#multi-sorter", "#student-exchange">>

C9_Witness ==
    /\ phase = "mounted"
    /\ currentView = "#home"
    /\ RegistryPart(main.children) # RegistryOrder
    /\ Len(RegistryPart(main.children)) = 6

HeaderHrefs == {headerAnchors[i] : i \in 1..Len(headerAnchors)}

\* C10 as stated: the Header's hrefs are exactly the eight recognized fragments.
C10_Original ==
    phase # "unmounted" => HeaderHrefs = RecognizedFragments

\* C10 amended: the Header's hrefs are exactly the recognized fragments other than
\* #hero: #home (the logo) and the six registry keys; no anchor targets #hero.
C10_HeaderHrefs ==
    phase # "unmounted" =>
        /\ HeaderHrefs = RecognizedFragments \ {"#hero"}
        /\ Len(headerAnchors) = 7

\* The Header is on screen and the browser is at the last of its anchors' targets.
C10_Witness ==
    /\ phase = "mounted"
    /\ LocationHash(location) = headerAnchors[Len(headerAnchors)]
    /\ currentView = "#student-exchange"
    /\ "#hero" \notin HeaderHrefs

\* C11 as stated: within one application instance NavigationState changes only in
\* a step that dispatches a fragment-change event; a scroll event leaves it
\* unchanged; the fragment-change handler never writes isScrolled, which changes
\* only through the Header's scroll handler.
C11_Original ==
    [][/\ (currentView' # currentView /\ appInst' = appInst) => DispatchHashChange
       /\ DispatchScroll => currentView' = currentView
       /\ HandlerRuns => isScrolled' = isScrolled
       /\ (isScrolled' # isScrolled /\ appInst' = appInst) => DispatchScroll]_vars

\* C11 amended: within one application instance NavigationState changes only in a
\* step that runs the fragment-change handler: for a dispatched fragment-change
\* event, or in the call the mount effect makes itself; the rest as stated.
C11_DisjointOwners ==
    [][/\ (currentView' # currentView /\ appInst' = appInst) => HandlerRuns
       /\ DispatchScroll => currentView' = currentView
       /\ HandlerRuns => isScrolled' = isScrolled
       /\ (isScrolled' # isScrolled /\ appInst' = appInst) => DispatchScroll]_vars

\* The handler ran while the Header was in its scrolled style: the viewport is at
\* the origin, the scroll event is still to come, and isScrolled is untouched.
C11_Witness ==
    /\ phase = "mounted"
    /\ pendingHash = 0
    /\ currentView = "#aix"
    /\ scroll = Origin
    /\ scrollPending
    /\ isScrolled

\* The component instances in a rendered output: (component, generation) pairs.
Instances(m) == {<<m.children[i].component, m.children[i].inst>> : i \in 1..Len(m.children)}

\* A step of one live application instance.
SameInstanceStep == phase # "unmounted" /\ phase' # "unmounted" /\ appInst' = appInst

\* C12: across every change between two states that are both not home aliases, all
\* six registry section instances stay mounted: the same instances before and
\* after, only their display flags may differ.
C12_InstancesPersist ==
    [][(SameInstanceStep /\ ~isHomePage(currentView) /\ ~isHomePage(currentView')) =>
          /\ Len(main.children) = 6 /\ Len(main'.children) = 6
          /\ Instances(main') = Instances(main)
          /\ \A i \in 1..6 :
                /\ main'.children[i].component = main.children[i].component
                /\ main'.children[i].inst = main.children[i].inst
          /\ instCount' = instCount]_vars

\* Mid-navigation #programs -> #about in the first instance: all six sections are
\* still those of the first generation.
C12_Witness ==
    /\ phase = "mounted"
    /\ appInst = 1
    /\ pendingHash = 1
    /\ location.fragment = "about"
    /\ currentView = "#programs"
    /\ Len(main.children) = 6
    /\ \A i \in 1..Len(main.children) : main.children[i].inst = 1
    /\ VisibleKeys(main) = {"#programs"}

\* C15: a switch between home mode and single-page mode unmounts every section
\* instance of the previous mode and mounts new ones: no instance is carried over,
\* and every instance after the switch is of a generation newer than all before,
\* so instances do not survive a path through #home or #hero.
C15_ModeSwitchRemounts ==
    [][(SameInstanceStep /\ isHomePage(currentView) # isHomePage(currentView')) =>
          /\ Instances(main') \cap Instances(main) = {}
          /\ \A i \in 1..Len(main'.children) : \A j \in 1..Len(main.children) :
                main'.children[i].inst > main.children[j].inst
          /\ Len(main'.children) = IF isHomePage(currentView') THEN 7 ELSE 6]_vars

\* Single-page -> home -> single-page within the first application instance: the
\* six sections on screen are of the third generation.
C15_Witness ==
    /\ phase = "mounted"
    /\ appInst = 1
    /\ currentView = "#about"
    /\ Len(main.children) = 6
    /\ \A i \in 1..Len(main.children) : main.children[i].inst = 3

\* C13 as stated: the fragment is read once, in the first render, which establishes
\* the initial NavigationState; no step reads it again (the mount effect included)
\* until a fragment-change event is delivered.
C13_Original ==
    /\ currentView = ExpectedView(location)
    /\ [][/\ Mount => (firstRender(World).hashReads = 1
                        /\ currentView' = ExpectedView(location'))
          /\ RunEffects => effectsRun.hashReads = 0
          /\ DispatchScroll => scrollDispatched.hashReads = 0
          /\ (DispatchHashChange /\ phase # "mounted") => hashChangeDispatched.hashReads = 0
          /\ Unmount => tornDown.hashReads = 0]_vars

\* C13 amended: the first render reads the fragment once and establishes the
\* initial NavigationState; the mount effect reads it again, with no event
\* delivered (once in the handler's initial call, once more in the re-render when
\* that call changed the state), and sets NavigationState from that read; no other
\* step reads it until an event is delivered.
C13_StartupReads ==
    /\ currentView = ExpectedView(location)
    /\ [][/\ Mount => (firstRender(World).hashReads = 1
                        /\ currentView' = ExpectedView(location'))
          /\ RunEffects => (/\ effectsRun.hashReads \in {1, 2}
                            /\ effectsRun.hashReads = 2 <=> currentView' # currentView
                            /\ currentView' = ExpectedView(location'))
          /\ DispatchScroll => scrollDispatched.hashReads = 0
          /\ (DispatchHashChange /\ phase # "mounted") => hashChangeDispatched.hashReads = 0
          /\ Unmount => tornDown.hashReads = 0]_vars

\* The fragment changed before the mount effect ran; the effect's own read
\* established it although the event is still queued.
C13_Witness ==
    /\ phase = "mounted"
    /\ appInst = 1
    /\ pendingHash = 1
    /\ location.fragment = "aix"
    /\ currentView = "#aix"
    /\ instCount = 2

\* C14: no missed update: once the mount effect has run and no fragment-change
\* event is pending, NavigationState is the browser's current fragment ('#home'
\* when empty), also when the fragment changed before the listener was registered.
C14_NoMissedUpdate ==
    (phase = "mounted" /\ pendingHash = 0) => currentView = ExpectedView(location)

\* The first render was in home mode; by now the browser is at #multi-sorter, every
\* event is handled and the view has followed.
C14_Witness ==
    /\ phase = "mounted"
    /\ appInst = 1
    /\ pendingHash = 0
    /\ instCount = 2
    /\ location.fragment = "multi-sorter"
    /\ currentView = "#multi-sorter"

\* The targets of the application's own links.
LinkTargets ==
    {headerAnchors[i] : i \in 1..Len(headerAnchors)} \cup {programs[i] : i \in 1..Len(programs)}

\* C16: every in-app link (seven Header anchors, four program cards) targets #home
\* or a registry key; so, navigating by in-app links only, the fragment only moves
\* to such targets, a view with visible content is never followed by the
\* no-visible-content state, and NavigationState never becomes #hero.
C16_LinksStayInside ==
    /\ [](/\ Len(headerAnchors) = 7 /\ Len(programs) = 4
          /\ LinkTargets \subseteq {"#home"} \cup RegistryKeys)
    /\ [][/\ location' # location => LocationHash(location') \in {"#home"} \cup RegistryKeys
          /\ (currentView \in {"#home"} \cup RegistryKeys)
                => (currentView' \in {"#home"} \cup RegistryKeys)
          /\ (VisibleBlocks(main) # {} /\ phase' # "unmounted") => VisibleBlocks(main') # {}
          /\ currentView # "#hero" => currentView' # "#hero"]_vars

\* The first render was in home mode and a link has since led to #multi-sorter.
C16_Witness ==
    /\ phase = "mounted"
    /\ appInst = 1
    /\ instCount = 2
    /\ pendingHash = 0
    /\ currentView = "#multi-sorter"
    /\ VisibleKeys(main) = {"#multi-sorter"}

\* C17: isScrolled starts false (in every new instance); a handled scroll event
\* sets it to scrollY > 10, so whenever no scroll event is pending it equals
\* scrollY > 10; in particular, once the scroll event is delivered with the viewport
\* at the origin, where the fragment-change handler put it, isScrolled is false.
C17_IsScrolledFollowsScroll ==
    /\ ~isScrolled
    /\ [](phase = "rendered" => ~isScrolled)
    /\ []((phase = "mounted" /\ ~scrollPending) => (isScrolled <=> scroll.y > ScrollThreshold))
    /\ [][(DispatchScroll /\ phase = "mounted") =>
            /\ isScrolled' <=> scroll.y > ScrollThreshold
            /\ scroll = Origin => ~isScrolled']_vars

\* A handled scroll event found the viewport just beyond the threshold.
C17_Witness ==
    /\ phase = "mounted"
    /\ ~scrollPending
    /\ scroll.y = ScrollThreshold + 1
    /\ isScrolled

\* C18: the mount effect runs the fragment-change handler once although no
\* fragment-change event is dispatched: the step consumes no event, reads the
\* fragment, and leaves the viewport at the origin whatever the fragment and the
\* scroll position before it.
C18_MountScrollsToOrigin ==
    [][RunEffects =>
          /\ pendingHash' = pendingHash
          /\ effectsRun.hashReads >= 1
          /\ scroll' = Origin
          /\ scroll # Origin => scrollPending'
          /\ currentView' = ExpectedView(location')]_vars

\* The first instance was mounted on an unknown fragment with the page scrolled
\* down: the viewport is at the origin and the scroll event is still to come.
C18_Witness ==
    /\ phase = "mounted"
    /\ appInst = 1
    /\ instCount = 1
    /\ pendingHash = 0
    /\ currentView = "#unknown-page"
    /\ scroll = Origin
    /\ scrollPending
    /\ ~isScrolled

====
